---- MODULE Spec2Model ----
(***************************************************************************)
(* A model of etl/script/demog.py: the conversion of the UN WPP            *)
(* "interpolated demographic indicators" workbook to DDF csv files.        *)
(*                                                                         *)
(* Strings of the program are sequences of one-character strings, so that  *)
(* the regular expressions and str methods of the script can be modelled   *)
(* by what they do to the characters.                                      *)
(***************************************************************************)
EXTENDS Integers, Sequences, FiniteSets, TLC

(***************************************************************************)
(* Characters                                                              *)
(***************************************************************************)

\* The printable ASCII characters in code point order: Ascii[i] has code 31 + i.
\* ("grave" stands for the grave accent, code 96, which a TLA+ string cannot hold.)
Ascii ==
    << " ", "!", "\"", "#", "$", "%", "&", "'", "(", ")", "*", "+", ",", "-", ".", "/",
       "0", "1", "2", "3", "4", "5", "6", "7", "8", "9", ":", ";", "<", "=", ">", "?",
       "@", "A", "B", "C", "D", "E", "F", "G", "H", "I", "J", "K", "L", "M", "N", "O",
       "P", "Q", "R", "S", "T", "U", "V", "W", "X", "Y", "Z", "[", "\\", "]", "^", "_",
       "grave", "a", "b", "c", "d", "e", "f", "g", "h", "i", "j", "k", "l", "m", "n", "o",
       "p", "q", "r", "s", "t", "u", "v", "w", "x", "y", "z", "{", "|", "}", "~" >>

\* The control characters the model knows, with their code points.
Control == { <<"\t", 9>>, <<"\n", 10>>, <<"\f", 12>>, <<"\r", 13>> }

Chars == { Ascii[i] : i \in 1..Len(Ascii) } \cup { p[1] : p \in Control }

\* ord(c), as a table over Chars.
OrdTab ==
    [ c \in Chars |->
        IF \E p \in Control : p[1] = c
        THEN (CHOOSE p \in Control : p[1] = c)[2]
        ELSE 31 + (CHOOSE i \in 1..Len(Ascii) : Ascii[i] = c) ]

Ord(c) == OrdTab[c]

\* str.lower() on one character: 'A'..'Z' move up by 32, the rest stay.
LowerTab ==
    [ c \in Chars |->
        IF 65 <= OrdTab[c] /\ OrdTab[c] <= 90 THEN Ascii[OrdTab[c] + 32 - 31] ELSE c ]

LowerChar(c) == LowerTab[c]

\* The characters str.strip() removes from both ends.
IsSpace(c) == c \in { " ", "\t", "\n", "\r", "\f" }

\* What "." of a regular expression matches (no DOTALL flag): all but newline.
Dot(c) == c # "\n"

(***************************************************************************)
(* str helpers                                                             *)
(***************************************************************************)

\* The first position from i on that holds no whitespace (Len(s) + 1 if none).
RECURSIVE SkipSpace(_, _)
SkipSpace(s, i) ==
    IF i > Len(s) \/ ~IsSpace(s[i]) THEN i ELSE SkipSpace(s, i + 1)

\* The last position up to i that holds no whitespace (0 if none).
RECURSIVE SkipSpaceBack(_, _)
SkipSpaceBack(s, i) ==
    IF i < 1 \/ ~IsSpace(s[i]) THEN i ELSE SkipSpaceBack(s, i - 1)

\* s.strip()
Strip(s) == SubSeq(s, SkipSpace(s, 1), SkipSpaceBack(s, Len(s)))

\* s.lower()
Lower(s) == [ i \in 1..Len(s) |-> LowerChar(s[i]) ]

(***************************************************************************)
(* to_concept_id                                                           *)
(***************************************************************************)

\* The character class [/ -\.\*";] : '/', the RANGE from ' ' (32) to '.' (46),
\* '*', '"' and ';'.
\* (SepClassLiteral is the class with "-" escaped: the seven characters alone.)
SepClassLiteral == { "/", " ", "-", ".", "*", "\"", ";" }

SepClass ==
    { c \in Chars :
        \/ c = "/"
        \/ (Ord(" ") <= Ord(c) /\ Ord(c) <= Ord("."))
        \/ c = "*"
        \/ c = "\""
        \/ c = ";" }

\* re.sub(r'[/ -\.\*";]+', '_', s): every maximal run of class characters
\* becomes one underscore.
SubSeparators(s) ==
    LET marked == [ i \in 1..Len(s) |->
                      IF s[i] \notin SepClass THEN s[i]
                      ELSE IF i > 1 /\ s[i - 1] \in SepClass THEN "" ELSE "_" ]
    IN  SelectSeq(marked, LAMBDA c : c # "")

\* The end of the match of \[.*\] that starts at i (0 when there is none):
\* greedy, so the last ']' that only non-newline characters separate from i.
BracketEnd(s, i) ==
    IF s[i] # "[" THEN 0
    ELSE LET ends == { j \in (i + 1)..Len(s) :
                         /\ s[j] = "]"
                         /\ \A k \in (i + 1)..(j - 1) : Dot(s[k]) }
         IN  IF ends # {} THEN CHOOSE j \in ends : \A k \in ends : k <= j ELSE 0

\* re.sub(r'\[.*\]', '', s): leftmost matches, each greedy, not overlapping.
RECURSIVE SubBracketsFrom(_, _, _)
SubBracketsFrom(s, i, out) ==
    IF i > Len(s) THEN out
    ELSE IF BracketEnd(s, i) # 0 THEN SubBracketsFrom(s, BracketEnd(s, i) + 1, out)
         ELSE SubBracketsFrom(s, i + 1, Append(out, s[i]))

SubBrackets(s) == SubBracketsFrom(s, 1, << >>)

\* s.replace('\n', '')
DropNewlines(s) == SelectSeq(s, LAMBDA c : c # "\n")

\* if s1[-1] == '_': s1 = s1[:-1]   (s1 is not empty here)
StripOneTrailing(s) ==
    IF s[Len(s)] = "_" THEN SubSeq(s, 1, Len(s) - 1) ELSE s

\* The result of a call: what it returned, or the exception it raised.
Return(v) == [ raised |-> "", val |-> v ]
Raise(e) == [ raised |-> e, val |-> << >> ]

to_concept_id(s) ==
    LET s1 == DropNewlines(SubBrackets(SubSeparators(Strip(s))))
    IN  IF s1 = << >> THEN Raise("IndexError")     \* s1[-1] of an empty string
        ELSE Return(Lower(StripOneTrailing(s1)))

(***************************************************************************)
(* Header parsing and the concept tables                                   *)
(***************************************************************************)

\* The '(' where re.match(r"(.*) *\((.*)\)", c) can open its second group:
\* only non-newline characters before it, and a ')' after it that only
\* non-newline characters separate from it.
ParenOpens(c) ==
    { i \in 1..Len(c) :
        /\ c[i] = "("
        /\ \A m \in 1..(i - 1) : Dot(c[m])
        /\ \E j \in (i + 1)..Len(c) :
              c[j] = ")" /\ \A m \in (i + 1)..(j - 1) : Dot(c[m]) }

\* (HeaderMatchLazy is the match of r"(.*?)\((.*)\)": the first '('.)
HeaderMatchLazy(c) ==
    IF ParenOpens(c) = {} THEN Raise("AttributeError")
    ELSE LET i == CHOOSE x \in ParenOpens(c) : \A y \in ParenOpens(c) : x <= y
             j == CHOOSE x \in (i + 1)..Len(c) :
                     /\ c[x] = ")" /\ \A m \in (i + 1)..(x - 1) : Dot(c[m])
                     /\ \A y \in (x + 1)..Len(c) :
                           ~(c[y] = ")" /\ \A m \in (i + 1)..(y - 1) : Dot(c[m]))
         IN  Return(<< SubSeq(c, 1, i - 1), SubSeq(c, i + 1, j - 1) >>)

\* name, unit = re.match(r"(.*) *\((.*)\)", c).groups(), with name.strip():
\* both groups are greedy, so the first group runs to the last '(' that can
\* open the second (taking the spaces before it), and the second group to the
\* last ')' of its line. No match is None, and None.groups() raises.
HeaderMatch(c) ==
    IF ParenOpens(c) = {} THEN Raise("AttributeError")
    ELSE LET i == CHOOSE x \in ParenOpens(c) : \A y \in ParenOpens(c) : y <= x
             j == CHOOSE x \in (i + 1)..Len(c) :
                     /\ c[x] = ")" /\ \A m \in (i + 1)..(x - 1) : Dot(c[m])
                     /\ \A y \in (x + 1)..Len(c) :
                           ~(c[y] = ")" /\ \A m \in (i + 1)..(y - 1) : Dot(c[m]))
         IN  Return(<< SubSeq(c, 1, i - 1), SubSeq(c, i + 1, j - 1) >>)

\* A dict as the sequence of its <<key, value>> items in insertion order.
DictHas(d, key) == \E i \in 1..Len(d) : d[i][1] = key
DictGet(d, key) == d[CHOOSE i \in 1..Len(d) : d[i][1] = key][2]

\* d[key] = value: a new key is appended, a known key keeps its place.
DictSet(d, key, value) ==
    IF DictHas(d, key)
    THEN [ i \in 1..Len(d) |-> IF d[i][1] = key THEN << key, value >> ELSE d[i] ]
    ELSE Append(d, << key, value >>)

\* The five fixed concept types of the discrete columns.
DiscreteTypes == << "string", "string", "string", "entity domain", "time" >>

\* extract_concept_discrete on the column labels of data.
extract_concept_discrete(cols) ==
    LET ids == [ i \in 1..5 |-> to_concept_id(cols[i]) ]
    IN  IF \E i \in 1..5 : ids[i].raised # "" THEN Raise("IndexError")
        ELSE Return([ i \in 1..5 |->
                        [ concept |-> ids[i].val, name |-> cols[i],
                          concept_type |-> DiscreteTypes[i] ] ])

\* One pass of the loop of extract_concept_continuous over column label c.
ContinuousLoopBody(res, c) ==
    LET m == HeaderMatch(c)
    IN  IF m.raised # "" THEN Raise(m.raised)
        ELSE Return(DictSet(res, Strip(m.val[1]), m.val[2]))

\* The data frame extract_concept_continuous builds from the dict.
ContinuousFrame(res) ==
    LET ids == [ i \in 1..Len(res) |-> to_concept_id(res[i][1]) ]
    IN  IF \E i \in 1..Len(res) : ids[i].raised # "" THEN Raise("IndexError")
        ELSE Return([ i \in 1..Len(res) |->
                        [ concept |-> ids[i].val, name |-> res[i][1],
                          concept_type |-> "measure", unit |-> res[i][2] ] ])

\* The dict after the loop over cols[k..], or the exception that ends the loop.
RECURSIVE ContinuousLoop(_, _, _)
ContinuousLoop(res, cols, k) ==
    IF k > Len(cols) THEN Return(res)
    ELSE LET r == ContinuousLoopBody(res, cols[k])
         IN  IF r.raised # "" THEN r ELSE ContinuousLoop(r.val, cols, k + 1)

\* extract_concept_continuous on the column labels of data.
extract_concept_continuous(cols) ==
    LET r == ContinuousLoop(<< >>, cols, 6)
    IN  IF r.raised # "" THEN r ELSE ContinuousFrame(r.val)

\* The labels of the first five columns of both data sheets (the sheet's
\* "Index" column is the frame's index).
VariantCol == << "V", "a", "r", "i", "a", "n", "t" >>
AreaCol ==
    << "M", "a", "j", "o", "r", " ", "a", "r", "e", "a", ",", " ", "r", "e", "g", "i", "o",
       "n", ",", " ", "c", "o", "u", "n", "t", "r", "y", " ", "o", "r", " ", "a", "r", "e",
       "a", " ", "*" >>
NotesCol == << "N", "o", "t", "e", "s" >>
CountryCodeCol == << "C", "o", "u", "n", "t", "r", "y", " ", "c", "o", "d", "e" >>
ReferenceDateCol ==
    << "R", "e", "f", "e", "r", "e", "n", "c", "e", " ", "d", "a", "t", "e", " ", "(", "1",
       " ", "J", "a", "n", "u", "a", "r", "y", " ", "-", " ", "3", "1", " ", "D", "e", "c",
       "e", "m", "b", "e", "r", ")" >>

DiscreteCols == << VariantCol, AreaCol, NotesCol, CountryCodeCol, ReferenceDateCol >>


(***************************************************************************)
(* Data frames                                                             *)
(*                                                                         *)
(* A frame is its column labels (strings) and its rows, each row the cells *)
(* under the labels in order. A cell is a string, or NaN for a blank cell. *)
(***************************************************************************)

NaN == << "nan" >>

\* The numbers of a finite set of integers in ascending order.
RECURSIVE Ascending(_)
Ascending(S) ==
    IF S = {} THEN << >>
    ELSE LET m == CHOOSE x \in S : \A y \in S : x <= y
         IN  << m >> \o Ascending(S \ { m })

\* The positions of the columns frame[[labels]] takes: for each label in turn,
\* every column that carries it.
RECURSIVE Positions(_, _)
Positions(cols, labels) ==
    IF labels = << >> THEN << >>
    ELSE Ascending({ i \in 1..Len(cols) : cols[i] = Head(labels) })
            \o Positions(cols, Tail(labels))

\* frame[[labels]]: KeyError when a label is no column of the frame.
SelectCols(cols, rows, labels) ==
    IF \E n \in 1..Len(labels) : \A i \in 1..Len(cols) : cols[i] # labels[n]
    THEN Raise("KeyError")
    ELSE LET at == Positions(cols, labels)
         IN  Return([ cols |-> [ i \in 1..Len(at) |-> cols[at[i]] ],
                      rows |-> [ r \in 1..Len(rows) |->
                                   [ i \in 1..Len(at) |-> rows[r][at[i]] ] ] ])

\* The rows at the positions of `keep`, in order.
RowsAt(rows, keep) ==
    LET at == Ascending(keep) IN [ i \in 1..Len(at) |-> rows[at[i]] ]

\* frame.drop_duplicates(): the first of every group of equal rows stays.
DropDuplicates(rows) ==
    RowsAt(rows, { i \in 1..Len(rows) : \A j \in 1..(i - 1) : rows[j] # rows[i] })

(***************************************************************************)
(* extract_entities_country                                                *)
(***************************************************************************)

extract_entities_country(cols, rows) ==
    LET sel == SelectCols(cols, rows, << CountryCodeCol, AreaCol >>)
    IN  IF sel.raised # "" THEN sel
        ELSE LET ent == DropDuplicates(sel.val.rows)
             IN  Return([ i \in 1..Len(ent) |->
                            [ country_code |-> ent[i][1],
                              major_area_region_country_or_area |-> ent[i][2] ] ])

(***************************************************************************)
(* extract_datapoints_country_year                                         *)
(***************************************************************************)

\* The column labels the function selects by, as to_concept_id spells them.
country_code == << "c", "o", "u", "n", "t", "r", "y", "_", "c", "o", "d", "e" >>
reference_date ==
    << "r", "e", "f", "e", "r", "e", "n", "c", "e", "_", "d", "a", "t", "e", "_", "1", "_",
       "j", "a", "n", "u", "a", "r", "y", "_", "3", "1", "_", "d", "e", "c", "e", "m", "b",
       "e", "r" >>
variant == << "v", "a", "r", "i", "a", "n", "t" >>

\* The rename dict after the loop over cols[k..], or the exception that ends it:
\* rename[c] = name, the first group as matched (not stripped).
RECURSIVE RenameLoop(_, _, _)
RenameLoop(rename, cols, k) ==
    IF k > Len(cols) THEN Return(rename)
    ELSE LET m == HeaderMatch(cols[k])
         IN  IF m.raised # "" THEN Raise(m.raised)
             ELSE RenameLoop(DictSet(rename, cols[k], m.val[1]), cols, k + 1)

\* data.rename(columns=rename): every label that is a key of the dict changes.
Renamed(cols, rename) ==
    [ i \in 1..Len(cols) |->
        IF DictHas(rename, cols[i]) THEN DictGet(rename, cols[i]) ELSE cols[i] ]

\* The dict res_dp after the loop over new_cols[k..], or the exception that
\* ends it: res_dp[c] = data[['country_code', 'reference_date_...', c, 'variant']]
RECURSIVE DatapointLoop(_, _, _, _)
DatapointLoop(res_dp, new_cols, rows, k) ==
    IF k > Len(new_cols) THEN Return(res_dp)
    ELSE LET df == SelectCols(new_cols, rows,
                              << country_code, reference_date, new_cols[k], variant >>)
         IN  IF df.raised # "" THEN df
             ELSE DatapointLoop(DictSet(res_dp, new_cols[k], df.val), new_cols, rows, k + 1)

extract_datapoints_country_year(cols, rows) ==
    LET rename == RenameLoop(<< >>, cols, 6)
    IN  IF rename.raised # "" THEN rename
        ELSE LET ids == [ i \in 1..Len(cols) |-> to_concept_id(Renamed(cols, rename.val)[i]) ]
             IN  IF \E i \in 1..Len(cols) : ids[i].raised # "" THEN Raise("IndexError")
                 ELSE DatapointLoop(<< >>, [ i \in 1..Len(cols) |-> ids[i].val ], rows, 6)

(***************************************************************************)
(* extract_notes                                                           *)
(***************************************************************************)

\* Whether r'\((.{1,2})\)' matches the start of n with a code of `len`
\* characters and at least one space follows (the ' * ' of the pattern).
LegendCodeLen(n, len) ==
    /\ Len(n) >= len + 3
    /\ n[1] = "("
    /\ \A m \in 2..(len + 1) : Dot(n[m])
    /\ n[len + 2] = ")"
    /\ n[len + 3] = " "

\* g1, g2 = re.match(r'\((.{1,2})\) * (.*)', n).groups(): the code takes two
\* characters when it can, the text starts after the spaces and ends with
\* its line.
LegendMatch(n) ==
    IF ~LegendCodeLen(n, 2) /\ ~LegendCodeLen(n, 1) THEN Raise("AttributeError")
    ELSE LET len == IF LegendCodeLen(n, 2) THEN 2 ELSE 1
             from == CHOOSE i \in (len + 4)..(Len(n) + 1) :
                        /\ i = Len(n) + 1 \/ n[i] # " "
                        /\ \A m \in (len + 3)..(i - 1) : n[m] = " "
             to == CHOOSE j \in (from - 1)..Len(n) :
                        /\ j = Len(n) \/ n[j + 1] = "\n"
                        /\ \A m \in from..j : Dot(n[m])
         IN  Return(<< SubSeq(n, 2, len + 1), SubSeq(n, from, to) >>)

\* The dict res_notes after the loop over the legend lines from k on, or the
\* exception that ends it.
RECURSIVE LegendLoop(_, _, _)
LegendLoop(res_notes, lines, k) ==
    IF k > Len(lines) THEN Return(res_notes)
    ELSE LET m == LegendMatch(lines[k])
         IN  IF m.raised # "" THEN Raise(m.raised)
             ELSE LegendLoop(DictSet(res_notes, m.val[1], m.val[2]), lines, k + 1)

\* df[['Variant', 'Notes']].dropna().drop_duplicates() on the frame indexed by
\* 'Country code': rows are <<code, variant, note>>, and neither dropna nor
\* drop_duplicates looks at the index, the country code.
NotesDedup(rows) ==
    LET kept == RowsAt(rows, { i \in 1..Len(rows) : rows[i][2] # NaN /\ rows[i][3] # NaN })
        Columns(i) == << kept[i][2], kept[i][3] >>
    IN  RowsAt(kept, { i \in 1..Len(kept) : \A j \in 1..(i - 1) : Columns(j) # Columns(i) })

\* (NotesLookupLenient is res_notes.get(str(x), str(x)): no KeyError.)
NotesLookupLenient(res_notes, rows) ==
    Return([ i \in 1..Len(rows) |->
               [ country_code |-> rows[i][1], variant |-> rows[i][2],
                 notes |-> IF DictHas(res_notes, rows[i][3])
                           THEN DictGet(res_notes, rows[i][3]) ELSE rows[i][3] ] ])

\* df['Notes'].apply(lambda x: res_notes[str(x)]), reset_index and the new
\* column names. The cells are strings, which str() returns as they are.
NotesLookup(res_notes, rows) ==
    IF \E i \in 1..Len(rows) : ~DictHas(res_notes, rows[i][3]) THEN Raise("KeyError")
    ELSE Return([ i \in 1..Len(rows) |->
                    [ country_code |-> rows[i][1], variant |-> rows[i][2],
                      notes |-> DictGet(res_notes, rows[i][3]) ] ])

extract_notes(cols, rows, lines) ==
    LET res_notes == LegendLoop(<< >>, lines, 1)
        sel == SelectCols(cols, rows, << CountryCodeCol, VariantCol, NotesCol >>)
    IN  IF res_notes.raised # "" THEN res_notes
        ELSE IF sel.raised # "" THEN sel
        ELSE NotesLookup(res_notes.val, NotesDedup(sel.val.rows))

(***************************************************************************)
(* Inputs                                                                  *)
(***************************************************************************)

MaxLabelLen == 4

LabelChars == { "a", "A", " ", "-", ",", ":", "_", "[", "]", "\n" }

\* Every label up to the bound.
Labels == UNION { [ 1..n -> LabelChars ] : n \in 0..MaxLabelLen }

MaxHeaderLen == 5

HeaderChars == { "a", " ", "(", ")", "\n" }

\* Every column label of header characters up to the bound.
HeaderStrings == UNION { [ 1..n -> HeaderChars ] : n \in 0..MaxHeaderLen }

MaxContinuous == 2

\* Continuous column labels: well formed ones, two that differ in case, two
\* that differ in spacing, one named like a discrete column, one without a
\* unit, one whose name is only an annotation.
HeaderPool ==
    { << "C", "B", "R", " ", "(", "x", ")" >>,
      << "c", "b", "r", " ", "(", "y", ")" >>,
      << "C", "B", "R", " ", " ", "(", "z", ")" >>,
      << "C", "D", "R", " ", "(", "x", ")" >>,
      << "V", "a", "r", "i", "a", "n", "t", " ", "(", "x", ")" >>,
      << "e", "0" >>,
      << "[", "n", "]", " ", "(", "x", ")" >> }

\* The sequences of n elements of S.
RECURSIVE Seqs(_, _)
Seqs(S, n) ==
    IF n = 0 THEN { << >> }
    ELSE { Append(q, x) : q \in Seqs(S, n - 1), x \in S }

SeqsUpTo(S, n) == UNION { Seqs(S, m) : m \in 0..n }

\* The cell of a data row under the j-th continuous column.
ValueCell(j) == << "v", Ascii[Ord("0") - 31 + j] >>

\* A data row: the five discrete cells, then a value for each of n indicators.
DataRow(var, area, note, code, date, n) ==
    << var, area, note, code, date >> \o [ j \in 1..n |-> ValueCell(j) ]

MaxRows == 2

\* Rows of one indicator that differ in country code and area name.
EntityRows ==
    { DataRow(<< "M" >>, area, NaN, code, << "1" >>, 1) :
        area \in { << "X" >>, << "Y" >> }, code \in { << "4" >>, << "8" >> } }

\* Rows of one indicator that differ in country code, variant and note, the
\* variant and the note cells blank in some.
NoteRows ==
    { DataRow(var, << "X" >>, note, code, << "1" >>, 1) :
        var \in { << "M" >>, NaN }, note \in { << "a" >>, << "b" >>, NaN },
        code \in { << "4" >>, << "8" >> } }

\* Legend sheets: none, one or two lines, a code given twice, a line that is
\* no legend line.
Legends ==
    { << >>,
      << << "(", "a", ")", " ", "A" >> >>,
      << << "(", "b", ")", " ", " ", "B" >> >>,
      << << "(", "a", ")", " ", "A" >>, << "(", "b", ")", " ", " ", "B" >> >>,
      << << "(", "a", ")", " ", "A" >>, << "(", "a", ")", " ", "C" >> >>,
      << << "a", ")", " ", "A" >> >> }

(***************************************************************************)
(* State                                                                   *)
(***************************************************************************)

VARIABLES
    npc, label, id1, id2,        \* to_concept_id applied to a label, twice
    pc,                          \* the statement of __main__ that runs next
    columns, est, mva, legend,   \* the workbook: column labels, the rows of
                                 \* ESTIMATES and MEDIUM VARIANT, the NOTES lines
    discrete, continuous,        \* the concept frames
    ci, res,                     \* extract_concept_continuous: its loop
    entities, res_dp, todo,      \* res.items() still to write
    notes_df,
    written,                     \* the files written so far
    index_called,                \* create_index_file has been called
    raised,                      \* the exception that ended the run
    traceback,                   \* the statement that raised it
    status                       \* "running", "exit 0" or "exit 1"

nvars == << npc, label, id1, id2 >>

dvars == << pc, columns, est, mva, legend, discrete, continuous, ci, res, entities,
            res_dp, todo, notes_df, written, index_called, raised, traceback,
            status >>

vars == << nvars, dvars >>

NoCall == Raise("not called")

NormOff == npc = "off" /\ label = << >> /\ id1 = NoCall /\ id2 = NoCall

\* The process at its start, with the workbook it will read.
MainStart(cols, e, m, l) ==
    /\ pc = "read"
    /\ columns = cols
    /\ est = e
    /\ mva = m
    /\ legend = l
    /\ discrete = << >>
    /\ continuous = << >>
    /\ ci = 6
    /\ res = << >>
    /\ entities = << >>
    /\ res_dp = << >>
    /\ todo = << >>
    /\ notes_df = << >>
    /\ written = << >>
    /\ index_called = FALSE
    /\ raised = ""
    /\ traceback = ""
    /\ status = "running"

MainOff ==
    /\ pc = "off"
    /\ columns = << >> /\ est = << >> /\ mva = << >> /\ legend = << >>
    /\ discrete = << >> /\ continuous = << >> /\ ci = 6 /\ res = << >>
    /\ entities = << >> /\ res_dp = << >> /\ todo = << >> /\ notes_df = << >>
    /\ written = << >> /\ index_called = FALSE /\ raised = "" /\ traceback = ""
    /\ status = "running"

\* One estimates row and one projection row with n indicators, and a legend.
PlainEst(n) == << DataRow(<< "E" >>, << "X" >>, NaN, << "4" >>, << "1" >>, n) >>
PlainMva(n) == << DataRow(<< "M" >>, << "X" >>, << "a" >>, << "4" >>, << "2" >>, n) >>
PlainLegend == << << "(", "a", ")", " ", "A" >> >>

\* A label.
NormInit ==
    /\ npc = "label"
    /\ label \in Labels
    /\ id1 = NoCall
    /\ id2 = NoCall
    /\ MainOff

\* A workbook with one continuous column, of any label up to the bound.
HeaderInit ==
    /\ NormOff
    /\ \E h \in HeaderStrings :
          MainStart(Append(DiscreteCols, h), PlainEst(1), PlainMva(1), PlainLegend)

\* A workbook with up to MaxContinuous continuous columns of the pool, no two
\* with the same label, and up to MaxRows rows in each sheet.
ConceptInit ==
    /\ NormOff
    /\ \E q \in SeqsUpTo(HeaderPool, MaxContinuous) :
          /\ \A i, j \in 1..Len(q) : i # j => q[i] # q[j]
          /\ \E ne, nm \in 0..MaxRows :
                MainStart(DiscreteCols \o q,
                          [ i \in 1..ne |-> PlainEst(Len(q))[1] ],
                          [ i \in 1..nm |-> PlainMva(Len(q))[1] ],
                          PlainLegend)

\* A workbook with one indicator, whose projection sheet holds up to MaxRows
\* rows: rows of any country and area, or rows of any country, variant and
\* note under any of the legends.
RowsInit ==
    /\ NormOff
    /\ \/ \E m \in SeqsUpTo(EntityRows, MaxRows) :
             MainStart(Append(DiscreteCols, << "C", "B", "R", " ", "(", "x", ")" >>),
                       PlainEst(1), m, PlainLegend)
       \/ \E m \in SeqsUpTo(NoteRows, MaxRows), l \in Legends :
             MainStart(Append(DiscreteCols, << "C", "B", "R", " ", "(", "x", ")" >>),
                       PlainEst(1), m, l)

(***************************************************************************)
(* to_concept_id on a label                                                *)
(***************************************************************************)

\* to_concept_id(label)
Normalize ==
    /\ npc = "label"
    /\ id1' = to_concept_id(label)
    /\ npc' = "once"
    /\ UNCHANGED << label, id2, dvars >>

\* to_concept_id(to_concept_id(label)), when the first call returned
NormalizeAgain ==
    /\ npc = "once"
    /\ id1.raised = ""
    /\ id2' = to_concept_id(id1.val)
    /\ npc' = "twice"
    /\ UNCHANGED << label, id1, dvars >>

(***************************************************************************)
(* __main__                                                                *)
(***************************************************************************)

\* An uncaught exception: the traceback, and the process exits with status 1.
Abort(e) == pc' = "exit" /\ raised' = e /\ traceback' = pc /\ status' = "exit 1"

Goto(next) == pc' = next /\ UNCHANGED << raised, traceback, status >>

\* The file names of the outputs: the kind, and the concept of a datapoint file.
File(kind, concept) == << kind, concept >>

\* frame.to_csv(path): the file is written, or the writer raises.
ToCsv(file, next) ==
    \/ written' = Append(written, file) /\ Goto(next)
    \/ Abort("IOError") /\ UNCHANGED written

\* pd.read_excel of the three sheets
ReadSheets ==
    /\ pc = "read"
    /\ \/ Goto("discrete")
       \/ Abort("IOError")
    /\ UNCHANGED << nvars, columns, est, mva, legend, discrete, continuous, ci, res,
                    entities, res_dp, todo, notes_df, written, index_called >>

\* discrete = extract_concept_discrete(est)
ExtractDiscrete ==
    /\ pc = "discrete"
    /\ \E r \in { extract_concept_discrete(columns) } :
           IF r.raised # ""
           THEN Abort(r.raised) /\ UNCHANGED discrete
           ELSE Goto("write_discrete") /\ discrete' = r.val
    /\ UNCHANGED << nvars, columns, est, mva, legend, continuous, ci, res, entities,
                    res_dp, todo, notes_df, written, index_called >>

\* discrete.to_csv(...)
WriteDiscrete ==
    /\ pc = "write_discrete"
    /\ ToCsv(File("concepts--discrete", << >>), "continuous")
    /\ UNCHANGED << nvars, columns, est, mva, legend, discrete, continuous, ci, res,
                    entities, res_dp, todo, notes_df, index_called >>

\* extract_concept_continuous(est): one pass of "for c in cont"
ContinuousStep ==
    /\ pc = "continuous"
    /\ ci <= Len(columns)
    /\ \E r \in { ContinuousLoopBody(res, columns[ci]) } :
           IF r.raised # ""
           THEN Abort(r.raised) /\ UNCHANGED << res, ci >>
           ELSE Goto("continuous") /\ res' = r.val /\ ci' = ci + 1
    /\ UNCHANGED << nvars, columns, est, mva, legend, discrete, continuous, entities,
                    res_dp, todo, notes_df, written, index_called >>

\* extract_concept_continuous(est): the frame after the loop, and the return
ContinuousBuild ==
    /\ pc = "continuous"
    /\ ci > Len(columns)
    /\ \E r \in { ContinuousFrame(res) } :
           IF r.raised # ""
           THEN Abort(r.raised) /\ UNCHANGED continuous
           ELSE Goto("write_continuous") /\ continuous' = r.val
    /\ UNCHANGED << nvars, columns, est, mva, legend, discrete, ci, res, entities,
                    res_dp, todo, notes_df, written, index_called >>

\* continuous.to_csv(...)
WriteContinuous ==
    /\ pc = "write_continuous"
    /\ ToCsv(File("concepts--continuous", << >>), "entities")
    /\ UNCHANGED << nvars, columns, est, mva, legend, discrete, continuous, ci, res,
                    entities, res_dp, todo, notes_df, index_called >>

\* entities = extract_entities_country(mva)
ExtractEntities ==
    /\ pc = "entities"
    /\ \E r \in { extract_entities_country(columns, mva) } :
           IF r.raised # ""
           THEN Abort(r.raised) /\ UNCHANGED entities
           ELSE Goto("write_entities") /\ entities' = r.val
    /\ UNCHANGED << nvars, columns, est, mva, legend, discrete, continuous, ci, res,
                    res_dp, todo, notes_df, written, index_called >>

\* entities.to_csv(...)
WriteEntities ==
    /\ pc = "write_entities"
    /\ ToCsv(File("entities--country_code", << >>), "datapoints")
    /\ UNCHANGED << nvars, columns, est, mva, legend, discrete, continuous, ci, res,
                    entities, res_dp, todo, notes_df, index_called >>

\* data = pd.concat([est, mva]); res = extract_datapoints_country_year(data)
ExtractDatapoints ==
    /\ pc = "datapoints"
    /\ \E r \in { extract_datapoints_country_year(columns, est \o mva) } :
           IF r.raised # ""
           THEN Abort(r.raised) /\ UNCHANGED << res_dp, todo >>
           ELSE /\ Goto(IF r.val = << >> THEN "notes" ELSE "write_datapoints")
                /\ res_dp' = r.val
                /\ todo' = [ i \in 1..Len(r.val) |-> r.val[i][1] ]
    /\ UNCHANGED << nvars, columns, est, mva, legend, discrete, continuous, ci, res,
                    entities, notes_df, written, index_called >>

\* for c, df in res.items(): df.to_csv(path)   (one pass)
WriteDatapoint ==
    /\ pc = "write_datapoints"
    /\ \/ /\ written' = Append(written, File("datapoints", Head(todo)))
          /\ todo' = Tail(todo)
          /\ Goto(IF Tail(todo) = << >> THEN "notes" ELSE "write_datapoints")
       \/ Abort("IOError") /\ UNCHANGED << written, todo >>
    /\ UNCHANGED << nvars, columns, est, mva, legend, discrete, continuous, ci, res,
                    entities, res_dp, notes_df, index_called >>

\* notes_df = extract_notes(data, notes)
ExtractNotes ==
    /\ pc = "notes"
    /\ \E r \in { extract_notes(columns, est \o mva, legend) } :
           IF r.raised # ""
           THEN Abort(r.raised) /\ UNCHANGED notes_df
           ELSE Goto("write_notes") /\ notes_df' = r.val
    /\ UNCHANGED << nvars, columns, est, mva, legend, discrete, continuous, ci, res,
                    entities, res_dp, todo, written, index_called >>

\* (WriteNotesUnchecked goes on to the index whether or not the file was written.)
WriteNotesUnchecked ==
    /\ pc = "write_notes"
    /\ \/ written' = Append(written, File("notes", << >>))
       \/ UNCHANGED written
    /\ Goto("index")
    /\ UNCHANGED << nvars, columns, est, mva, legend, discrete, continuous, ci, res,
                    entities, res_dp, todo, notes_df, index_called >>

\* notes_df.to_csv(...)
WriteNotes ==
    /\ pc = "write_notes"
    /\ ToCsv(File("notes", << >>), "index")
    /\ UNCHANGED << nvars, columns, est, mva, legend, discrete, continuous, ci, res,
                    entities, res_dp, todo, notes_df, index_called >>

\* create_index_file(out_dir, ...), the last statement: when it returns the
\* process ends with status 0, when it raises with status 1.
CreateIndex ==
    /\ pc = "index"
    /\ index_called' = TRUE
    /\ \/ pc' = "exit" /\ status' = "exit 0" /\ UNCHANGED << raised, traceback >>
       \/ Abort("IOError")
    /\ UNCHANGED << nvars, columns, est, mva, legend, discrete, continuous, ci, res,
                    entities, res_dp, todo, notes_df, written >>

MainNext ==
    \/ ReadSheets
    \/ ExtractDiscrete
    \/ WriteDiscrete
    \/ ContinuousStep
    \/ ContinuousBuild
    \/ WriteContinuous
    \/ ExtractEntities
    \/ WriteEntities
    \/ ExtractDatapoints
    \/ WriteDatapoint
    \/ ExtractNotes
    \/ WriteNotes
    \/ CreateIndex

NormNext == Normalize \/ NormalizeAgain

\* to_concept_id over the labels.
SpecNorm == NormInit /\ [][NormNext]_vars

\* The run over workbooks with any one continuous column label.
SpecHeader == HeaderInit /\ [][MainNext]_vars

\* The run over workbooks with several continuous columns.
SpecConcepts == ConceptInit /\ [][MainNext]_vars

\* The run over workbooks with any rows and legend.
SpecRows == RowsInit /\ [][MainNext]_vars

\* The run over all these workbooks.
Spec == (HeaderInit \/ ConceptInit \/ RowsInit) /\ [][MainNext]_vars

(***************************************************************************)
(* Claims about to_concept_id (checked under SpecNorm)                     *)
(***************************************************************************)

\* C1: to_concept_id is idempotent: whenever to_concept_id(label) returns,
\* to_concept_id of that result returns too and equals it.
C1_Idempotent ==
    npc = "twice" => (id2.raised = "" /\ id2.val = id1.val)

IdChars ==
    { Ascii[i] : i \in (Ord("a") - 31)..(Ord("z") - 31) }
        \cup { Ascii[i] : i \in (Ord("0") - 31)..(Ord("9") - 31) } \cup { "_" }

\* C2: every identifier to_concept_id returns consists of lowercase letters,
\* digits and underscores only, and does not end with an underscore.
C2_LowerAlnumUnderscore ==
    (npc # "label" /\ id1.raised = "") =>
        /\ \A i \in 1..Len(id1.val) : id1.val[i] \in IdChars
        /\ (id1.val # << >> => id1.val[Len(id1.val)] # "_")

\* The reference algorithm of spec section 4.1, with the separator set `seps`:
\* trim; collapse runs of separators to one underscore; delete bracketed
\* substrings; delete newlines; strip one trailing underscore; lowercase.
RefTrim(s) ==
    LET black == { i \in 1..Len(s) : ~IsSpace(s[i]) }
    IN  [ i \in 1..Cardinality({ k \in 1..Len(s) :
                                   /\ \E b \in black : b <= k
                                   /\ \E b \in black : k <= b }) |->
            s[i + Cardinality({ k \in 1..Len(s) : \A b \in black : k < b }) ] ]

\* s without the positions that `drop` holds.
RefWithout(s, drop) ==
    LET keep == (1..Len(s)) \ drop
        Nth(i) == CHOOSE k \in keep : Cardinality({ m \in keep : m <= k }) = i
    IN  [ i \in 1..Cardinality(keep) |-> s[Nth(i)] ]

RefCollapse(s, seps) ==
    LET marked == [ i \in 1..Len(s) |-> IF s[i] \in seps THEN "_" ELSE s[i] ]
    IN  RefWithout(marked, { i \in 2..Len(s) : s[i] \in seps /\ s[i - 1] \in seps })

\* On each line, the stretch from the first '[' that a ']' follows to the last ']'.
RefBracketed(s) ==
    LET SameLine(i, j) ==
            \A k \in 1..Len(s) : ((i <= k /\ k <= j) \/ (j <= k /\ k <= i)) => s[k] # "\n"
        Closes(i) == { j \in 1..Len(s) : s[j] = "]" /\ SameLine(i, j) }
        Opens(i) == { j \in 1..Len(s) :
                        s[j] = "[" /\ SameLine(i, j) /\ \E c \in Closes(i) : j < c }
    IN  { i \in 1..Len(s) :
            /\ s[i] # "\n"
            /\ \E o \in Opens(i) : o <= i
            /\ \E c \in Closes(i) : i <= c
            /\ Opens(i) # {} }

RefNormalize(s, seps) ==
    LET t == RefCollapse(RefTrim(s), seps)
        u == RefWithout(t, RefBracketed(t) \cup { i \in 1..Len(t) : t[i] = "\n" })
        v == IF u # << >> /\ u[Len(u)] = "_" THEN SubSeq(u, 1, Len(u) - 1) ELSE u
    IN  Lower(v)

\* The seven separators the spec lists.
SpecSeparators == { "/", " ", "-", ".", "*", "\"", ";" }

\* C10 as stated: the result equals the reference algorithm run with the seven
\* separators '/', ' ', '-', '.', '*', '"', ';'.
C10_SevenSeparators ==
    (npc # "label" /\ id1.raised = "") => id1.val = RefNormalize(label, SpecSeparators)

\* Every character from ' ' (32) to '/' (47), and ';'.
RangeSeparators == { c \in Chars : 32 <= Ord(c) /\ Ord(c) <= 47 } \cup { ";" }

\* C10 (amended): the result equals the reference algorithm run with the
\* separator set { every character from ' ' to '/' in code point order, ';' },
\* so ',' '(' ')' '+' '&' '%' '!' '#' '$' and the apostrophe are collapsed to
\* underscores as well.
C10_RangeSeparators ==
    (npc # "label" /\ id1.raised = "") => id1.val = RefNormalize(label, RangeSeparators)

\* A label with a comma and an upper-case letter has been normalised.
C10_Witness ==
    /\ npc = "once"
    /\ label = << "A", ",", " ", "a" >>
    /\ id1 = Return(<< "a", "_", "a" >>)

(***************************************************************************)
(* Claims about the run                                                    *)
(***************************************************************************)

\* The statements of __main__ in the order they run.
Statements ==
    << "read", "discrete", "write_discrete", "continuous", "write_continuous", "entities",
       "write_entities", "datapoints", "write_datapoints", "notes", "write_notes", "index" >>

Position(stmt) == CHOOSE i \in 1..Len(Statements) : Statements[i] = stmt

\* The statement the run has come to: the one to run next, the one that
\* raised, or the end.
Now ==
    IF pc # "exit" THEN Position(pc)
    ELSE IF traceback # "" THEN Position(traceback)
    ELSE Len(Statements) + 1

\* The run has completed statement stmt.
Done(stmt) == pc # "off" /\ Now > Position(stmt)

\* The run has stopped in statement stmt.
RaisedIn(stmt) == pc = "exit" /\ traceback = stmt

\* The dict holds value under key.
Recorded(d, key, value) == DictHas(d, key) /\ DictGet(d, key) = value

\* The ways to read h as X(Y): the places of the '(' when h ends with ')'.
CompoundSplits(h) ==
    { i \in 1..(Len(h) - 1) : h[i] = "(" /\ h[Len(h)] = ")" }

\* h has a parenthesised part: a '(' and a ')' after it.
HasParenthesised(h) ==
    \E i, j \in 1..Len(h) : i < j /\ h[i] = "(" /\ h[j] = ")"

\* C3 as stated: a column label that reads "X (Y)" in any way (so also one
\* with several parenthesised groups) is recorded as (X trimmed, Y), and a label
\* without a parenthesised part ends the extraction with an error.
C3_AnyCompoundHeader ==
    /\ ci > 6 =>
         LET h == columns[ci - 1]
         IN  /\ \A i \in CompoundSplits(h) :
                   Recorded(res, Strip(SubSeq(h, 1, i - 1)), SubSeq(h, i + 1, Len(h) - 1))
             /\ HasParenthesised(h)
    /\ (RaisedIn("continuous") /\ ci <= Len(columns)) =>
         /\ raised = "AttributeError"
         /\ CompoundSplits(columns[ci]) = {}

\* The ways to read h as X(Y) with no '(' in Y, for an h of one line.
PlainSplits(h) ==
    { i \in CompoundSplits(h) :
        /\ \A m \in (i + 1)..Len(h) : h[m] # "("
        /\ \A m \in 1..Len(h) : h[m] # "\n" }

\* C3 (amended): a one-line column label that reads "X (Y)" with no '(' in Y is
\* recorded in the dict as (X trimmed, Y); a label without a parenthesised
\* part ends the extraction with an error and is never recorded.
C3_PlainCompoundHeader ==
    /\ ci > 6 =>
         LET h == columns[ci - 1]
         IN  /\ \A i \in PlainSplits(h) :
                   Recorded(res, Strip(SubSeq(h, 1, i - 1)), SubSeq(h, i + 1, Len(h) - 1))
             /\ HasParenthesised(h)
    /\ (RaisedIn("continuous") /\ ci <= Len(columns)) =>
         /\ raised = "AttributeError"
         /\ PlainSplits(columns[ci]) = {}

\* The label "a (a)" has been recorded as name "a", unit "a".
C3_Witness ==
    /\ ci = 7
    /\ columns[6] = << "a", " ", "(", "a", ")" >>
    /\ res = << << << "a" >>, << "a" >> >> >>

\* The concept ids of both concept frames.
ConceptIds ==
    [ i \in 1..(Len(discrete) + Len(continuous)) |->
        IF i <= Len(discrete) THEN discrete[i].concept
        ELSE continuous[i - Len(discrete)].concept ]

\* C4: no two rows of the discrete and the continuous concept frames have the
\* same concept id.
C4_UniqueConceptIds ==
    \A i, j \in 1..Len(ConceptIds) : i # j => ConceptIds[i] # ConceptIds[j]

\* C5: no two rows of the entity frame have the same country code.
C5_UniqueCountryCode ==
    \A i, j \in 1..Len(entities) :
        i # j => entities[i].country_code # entities[j].country_code

\* The combined input of the datapoint and notes extraction.
Data == est \o mva

\* C6: extract_datapoints_country_year returns one frame per continuous
\* column, each with a row for every row of the combined input, in its order,
\* with the cells country code, date, value of that column, variant.
C6_OneTablePerColumn ==
    Done("datapoints") =>
        /\ Len(res_dp) = Len(columns) - 5
        /\ \A n \in 1..Len(res_dp) :
              /\ Len(res_dp[n][2].cols) = 4
              /\ res_dp[n][2].rows =
                    [ r \in 1..Len(Data) |->
                        << Data[r][4], Data[r][5], Data[r][5 + n], Data[r][1] >> ]

\* The legend as extract_notes reads it.
LegendDict == LegendLoop(<< >>, legend, 1)

\* The rows of the combined input with a variant and a note.
NotedRows == { r \in 1..Len(Data) : Data[r][1] # NaN /\ Data[r][3] # NaN }

\* C7: the notes frame holds exactly one row for each (country code, variant,
\* note) of an input row with a note, the note replaced by its legend text.
C7_OneRowPerTriple ==
    Done("notes") =>
        \A r \in NotedRows :
            Cardinality({ i \in 1..Len(notes_df) :
                            notes_df[i] = [ country_code |-> Data[r][4],
                                            variant |-> Data[r][1],
                                            notes |-> DictGet(LegendDict.val, Data[r][3]) ] }) = 1

IsWritten(kind, concept) ==
    \E i \in 1..Len(written) : written[i][1] = kind /\ written[i][2] = concept

\* Every output file is written: both concept files, the entity file, a
\* datapoint file for every frame of res, and the notes file.
AllWritten ==
    /\ IsWritten("concepts--discrete", << >>)
    /\ IsWritten("concepts--continuous", << >>)
    /\ IsWritten("entities--country_code", << >>)
    /\ \A n \in 1..Len(res_dp) : IsWritten("datapoints", res_dp[n][1])
    /\ IsWritten("notes", << >>)

\* The statement that writes the files of a kind.
WriterOf(kind) ==
    CASE kind = "concepts--discrete" -> "write_discrete"
      [] kind = "concepts--continuous" -> "write_continuous"
      [] kind = "entities--country_code" -> "write_entities"
      [] kind = "datapoints" -> "write_datapoints"
      [] kind = "notes" -> "write_notes"

\* C9: create_index_file is called only after every output file is written;
\* when an extraction or a write raises, the run stops there, the index
\* generator is never called and the exit status is not 0.
C9_IndexLast ==
    /\ index_called => AllWritten
    /\ (raised # "" /\ traceback # "index") =>
          /\ ~index_called
          /\ status = "exit 1"
          /\ pc = "exit"
          /\ \A i \in 1..Len(written) :
                \/ Position(WriterOf(written[i][1])) < Position(traceback)
                \/ written[i][1] = "datapoints" /\ traceback = "write_datapoints"
    /\ status = "exit 0" => (index_called /\ raised = "")
    /\ status = "running" => raised = ""

\* A run over two indicators has written everything, called the index
\* generator and ended with status 0.
C9_Witness ==
    /\ status = "exit 0"
    /\ index_called
    /\ Len(res_dp) = 2
    /\ Len(written) = 6

====
